---- MODULE Spec2Model ----
(***************************************************************************)
(* A model of the aggregation gateway of src/app.py: the rate limiter in   *)
(* front of GET /api/getRegionInfo, the handler get_region_info, and the   *)
(* three provider functions get_map_info, get_forest_data and              *)
(* get_property_data.                                                      *)
(*                                                                         *)
(* One request is in flight at a time (one worker).  Floats are kept in    *)
(* thousandths, query-string values are sequences of characters, JSON      *)
(* values are tagged records.                                              *)
(***************************************************************************)
EXTENDS Integers, Sequences, FiniteSets, TLC

VARIABLES
    scenario,     \* the environment the run is explored in (never changes)
    GOOGLE_API_KEY, \* line 24: the process-wide key, or None when unset
    now,          \* time.time(), in seconds
    storage,      \* limits MemoryStorage.storage: [key -> hits]
    expirations,  \* limits MemoryStorage.expirations: [key -> time]
    pc,           \* where the request in flight is
    req,          \* the request in flight: [client, args]
    latitude,     \* get_region_info's local `latitude`
    longitude,    \* get_region_info's local `longitude`
    waited,       \* seconds get_map_info has been blocked in requests.get
    upstream,     \* how the requests.get of the request in flight ended
    map_info,     \* get_region_info's local `map_info`
    forest_data,  \* get_region_info's local `forest_data`
    property_data,\* get_region_info's local `property_data`
    response,     \* the responses sent for the request in flight
    logs,         \* the log events emitted for the request in flight
    calls,        \* the provider calls made for the request in flight
    accepted,     \* [client -> requests that passed the limiter so far]
    failedBefore  \* an earlier request was answered 500

vars == <<scenario, GOOGLE_API_KEY, now, storage, expirations, pc, req,
          latitude, longitude,
          waited, upstream, map_info, forest_data, property_data, response,
          logs, calls, accepted, failedBefore>>

(***************************************************************************)
(* Bounds of the exploration.                                              *)
(***************************************************************************)
\* hits a client may make beyond the route limit within one window
MaxOver == 1
\* seconds one Tick advances the clock, and the last instant explored
TickSpec == 30
HorizonSpec == 60
TickQuota == 30
HorizonQuota == 60
TickHour == 30
HorizonHour == 300

(***************************************************************************)
(* Program constants.                                                      *)
(***************************************************************************)
GEOCODE_TIMEOUT == 5
ROUTE_LIMIT_AMOUNT == 10
SECONDS_PER_MINUTE == 60
DEFAULT_HOUR_AMOUNT == 50
SECONDS_PER_HOUR == 3600
DEFAULT_DAY_AMOUNT == 200
SECONDS_PER_DAY == 86400
\* floats are held as integers in units of 1/FloatScale
FloatScale == 1000

\* The program's message strings are Korean text; each stands here as an
\* ASCII token and the comment gives the text of the source.
\* src/app.py:72  "주소 정보를 찾을 수 없음"
ADDRESS_NOT_FOUND == "address-not-found"
\* src/app.py:69  "주소 정보 없음"
ADDRESS_MISSING == "address-missing"
\* src/app.py:140  "latitude와 longitude 파라미터가 필요합니다."
PARAMS_REQUIRED == "latitude-and-longitude-parameters-required"
\* src/app.py:156  "서버 에러 발생"
SERVER_ERROR == "server-error"
\* src/app.py:162  "내부 서버 에러 발생"
INTERNAL_SERVER_ERROR == "internal-server-error"
\* src/app.py:96  "강원도 산림지역"
REGION_NAME == "gangwon-forest-region"
\* src/app.py:118  "홍길동"
OWNER_NAME == "hong-gildong"

(***************************************************************************)
(* Python values.                                                          *)
(***************************************************************************)
PyNone == [t |-> "null"]
JStr(s) == [t |-> "string", s |-> s]
JNum(n) == [t |-> "number", n |-> n]
JBool(b) == [t |-> "bool", b |-> b]
JArr(e) == [t |-> "array", e |-> e]
JObj(f) == [t |-> "object", f |-> f]
EmptyDict == JObj(<<>>)

\* a float: a finite value in thousandths, or NaN
Float(v) == [t |-> "float", nan |-> FALSE, v |-> v]
NaN == [t |-> "float", nan |-> TRUE, v |-> 0]

\* bool(x) of a value decoded from JSON
Truthy(x) ==
    CASE x.t = "null" -> FALSE
      [] x.t = "bool" -> x.b
      [] x.t = "number" -> x.n # 0
      [] x.t = "string" -> x.s # ""
      [] x.t = "array" -> Len(x.e) > 0
      [] x.t = "object" -> DOMAIN x.f # {}

\* only a dict has .get among the values json() can return
HasGet(x) == x.t = "object"

\* d.get(k, default)
DictGet(d, k, default) == IF k \in DOMAIN d.f THEN d.f[k] ELSE default

\* x[0]: whether it evaluates, and to what.  The strings of the model that
\* are subscripted hold one character, so s[0] is s.
CanSubscript0(x) ==
    \/ x.t = "array" /\ Len(x.e) > 0
    \/ x.t = "string" /\ x.s # ""

Subscript0(x) == IF x.t = "array" THEN x.e[1] ELSE x

(***************************************************************************)
(* float(s) and the formatting of a float, on sequences of characters.     *)
(***************************************************************************)
Digits == <<"0", "1", "2", "3", "4", "5", "6", "7", "8", "9">>

IsDigit(c) == \E i \in 1..10 : Digits[i] = c

DigitVal(c) == (CHOOSE i \in 1..10 : Digits[i] = c) - 1

AllDigits(s) == \A i \in 1..Len(s) : IsDigit(s[i])

RECURSIVE DigitsVal(_)
DigitsVal(s) ==
    IF s = <<>> THEN 0
    ELSE 10 * DigitsVal(SubSeq(s, 1, Len(s) - 1)) + DigitVal(s[Len(s)])

\* the fraction digits f as thousandths (the model's literals have <= 3)
FracVal(f) ==
    CASE Len(f) = 0 -> 0
      [] Len(f) = 1 -> 100 * DigitsVal(f)
      [] Len(f) = 2 -> 10 * DigitsVal(f)
      [] OTHER -> DigitsVal(SubSeq(f, 1, 3))

DotAt(s) == {i \in 1..Len(s) : s[i] = "."}

\* float() of an unsigned decimal literal: digits [. digits], one digit at least
UnsignedOk(s) ==
    IF DotAt(s) = {} THEN Len(s) > 0 /\ AllDigits(s)
    ELSE LET d == CHOOSE i \in DotAt(s) : \A j \in DotAt(s) : i <= j
             ip == SubSeq(s, 1, d - 1)
             fp == SubSeq(s, d + 1, Len(s))
         IN  AllDigits(ip) /\ AllDigits(fp) /\ Len(ip) + Len(fp) > 0

UnsignedVal(s) ==
    IF DotAt(s) = {} THEN FloatScale * DigitsVal(s)
    ELSE LET d == CHOOSE i \in DotAt(s) : \A j \in DotAt(s) : i <= j
         IN  FloatScale * DigitsVal(SubSeq(s, 1, d - 1))
               + FracVal(SubSeq(s, d + 1, Len(s)))

HasSign(s) == Len(s) > 0 /\ s[1] \in {"+", "-"}

Unsigned(s) == IF HasSign(s) THEN SubSeq(s, 2, Len(s)) ELSE s

\* float(s): a Float, or PyNone where float() raises ValueError
PyFloat(s) ==
    IF Unsigned(s) = <<"n", "a", "n">> THEN NaN
    ELSE IF UnsignedOk(Unsigned(s))
         THEN Float((IF HasSign(s) /\ s[1] = "-" THEN -1 ELSE 1)
                      * UnsignedVal(Unsigned(s)))
         ELSE PyNone

RECURSIVE NatStr(_)
NatStr(n) ==
    IF n < 10 THEN <<Digits[n + 1]>>
    ELSE NatStr(n \div 10) \o <<Digits[(n % 10) + 1]>>

\* the fraction of a float's repr: three digits, trailing zeros dropped,
\* one digit kept
FracStr(m) ==
    CASE m = 0 -> <<"0">>
      [] m % 100 = 0 -> NatStr(m \div 100)
      [] m % 10 = 0 ->
           <<Digits[(m \div 100) + 1], Digits[((m \div 10) % 10) + 1]>>
      [] OTHER ->
           <<Digits[(m \div 100) + 1], Digits[((m \div 10) % 10) + 1],
             Digits[(m % 10) + 1]>>

\* f"{x}" of a float, or of None
FloatStr(x) ==
    IF x.t = "null" THEN <<"None">>
    ELSE IF x.nan THEN <<"n", "a", "n">>
    ELSE LET a == IF x.v < 0 THEN -x.v ELSE x.v
         IN  (IF x.v < 0 THEN <<"-">> ELSE <<>>)
               \o NatStr(a \div FloatScale) \o <<".">>
               \o FracStr(a % FloatScale)

\* x + 0.001 * k
FloatAdd(x, k) == IF x.nan THEN NaN ELSE Float(x.v + k)

(***************************************************************************)
(* The providers.  Each returns [raised, ret, logs]: whether the call      *)
(* raised to its caller, what it returned, and the log events it emitted.  *)
(***************************************************************************)
LogEvent(level, site) == [level |-> level, site |-> site]

\* f"{GOOGLE_API_KEY}": os.getenv gives a str, or None when the key is unset
KeyStr(key) == IF key.t = "null" THEN "None" ELSE key.s

\* lines 75-78: the static-map URL, a sequence of pieces and characters
StaticMapUrl(lat, lon, key) ==
    <<"https://maps.googleapis.com/maps/api/staticmap?", "center=">>
      \o FloatStr(lat) \o <<",">> \o FloatStr(lon)
      \o <<"&zoom=15&size=600x300&key=", KeyStr(key)>>

\* lines 58-64: what the try block leaves in geocode_data, and its log
\* event.  requests.get raises on a transport failure or a timeout and
\* response.json() raises on a body that is not JSON; any other outcome is
\* the decoded body, whatever its shape.
GeocodeTry(outcome) ==
    IF outcome.kind = "json"
    THEN [geocode_data |-> outcome.body,
          log |-> LogEvent("INFO", "get_map_info")]
    ELSE [geocode_data |-> JObj([status |-> JStr("ERROR")]),
          log |-> LogEvent("ERROR", "get_map_info")]

\* line 66: the condition of the if.  It is evaluated outside the try
\* block: .get on a value that is no dict raises AttributeError.
CondRaises(gd) == ~HasGet(gd)

CondHolds(gd) ==
    /\ DictGet(gd, "status", PyNone) = JStr("OK")
    /\ Truthy(DictGet(gd, "results", PyNone))

\* lines 67-70: results[0], result.get(...), result.get("geometry", {}).get(...)
ExtractRaises(gd) ==
    LET results == gd.f["results"]
    IN  \/ ~CanSubscript0(results)
        \/ ~HasGet(Subscript0(results))
        \/ ~HasGet(DictGet(Subscript0(results), "geometry", EmptyDict))

ExtractAddress(gd) ==
    DictGet(Subscript0(gd.f["results"]), "formatted_address",
            JStr(ADDRESS_MISSING))

\* a slip: the default of the failure branch in place of "N/A"
ExtractLocationType_EmptyDefault(gd) ==
    DictGet(DictGet(Subscript0(gd.f["results"]), "geometry", EmptyDict),
            "location_type", JStr(""))

ExtractLocationType(gd) ==
    DictGet(DictGet(Subscript0(gd.f["results"]), "geometry", EmptyDict),
            "location_type", JStr("N/A"))

\* lines 80-85
MapInfo(address, location_type, url) ==
    [address |-> address, formatted_address |-> address,
     location_type |-> location_type, map_image_url |-> url]

\* lines 50-85
get_map_info(lat, lon, outcome, key) ==
    LET t == GeocodeTry(outcome)
        gd == t.geocode_data
        url == StaticMapUrl(lat, lon, key)
    IN  IF CondRaises(gd)
        THEN [raised |-> TRUE, ret |-> PyNone, logs |-> <<t.log>>]
        ELSE IF CondHolds(gd)
        THEN IF ExtractRaises(gd)
             THEN [raised |-> TRUE, ret |-> PyNone, logs |-> <<t.log>>]
             ELSE [raised |-> FALSE,
                   ret |-> MapInfo(ExtractAddress(gd),
                                   ExtractLocationType(gd), url),
                   logs |-> <<t.log>>]
        ELSE [raised |-> FALSE,
              ret |-> MapInfo(JStr(ADDRESS_NOT_FOUND), JStr(""), url),
              logs |-> <<t.log>>]

\* lines 97-102: the four corners, +0.001/+0.002 on each axis
BoundaryCoordinates(lat, lon) ==
    <<[lat |-> FloatAdd(lat, 1), lon |-> FloatAdd(lon, 1)],
      [lat |-> FloatAdd(lat, 2), lon |-> FloatAdd(lon, 1)],
      [lat |-> FloatAdd(lat, 2), lon |-> FloatAdd(lon, 2)],
      [lat |-> FloatAdd(lat, 1), lon |-> FloatAdd(lon, 2)]>>

\* a slip: the success branch without its logging.info
get_forest_data_Silent(lat, lon) ==
    [raised |-> FALSE,
     ret |-> [is_mountain_area |-> TRUE, region_name |-> REGION_NAME,
              boundary_coordinates |-> BoundaryCoordinates(lat, lon)],
     logs |-> <<>>]

\* lines 88-108: the sums raise TypeError inside the try block when an
\* argument is no number, and the except branch returns the fallback
get_forest_data(lat, lon) ==
    IF lat.t = "float" /\ lon.t = "float"
    THEN [raised |-> FALSE,
          ret |-> [is_mountain_area |-> TRUE, region_name |-> REGION_NAME,
                   boundary_coordinates |-> BoundaryCoordinates(lat, lon)],
          logs |-> <<LogEvent("INFO", "get_forest_data")>>]
    ELSE [raised |-> FALSE,
          ret |-> [is_mountain_area |-> FALSE, region_name |-> "",
                   boundary_coordinates |-> <<>>],
          logs |-> <<LogEvent("ERROR", "get_forest_data")>>]

\* lines 111-126: nothing in the try block reads region_name or can raise
get_property_data(region_name) ==
    [raised |-> FALSE,
     ret |-> [owner |-> OWNER_NAME, registration_number |-> "1234-5678-9012",
              management |-> PyNone],
     logs |-> <<LogEvent("INFO", "get_property_data")>>]

(***************************************************************************)
(* The rate limiter: Limiter(key_func=get_remote_address, default_limits)  *)
(* and the route's @limiter.limit("10 per minute").  The storage is the    *)
(* in-memory one and the strategy the fixed window: a key's window opens   *)
(* at its first hit and its counter is dropped once the window has passed. *)
(***************************************************************************)
\* line 36
default_limits ==
    {[name |-> "200 per day", amount |-> DEFAULT_DAY_AMOUNT,
      per |-> SECONDS_PER_DAY],
     [name |-> "50 per hour", amount |-> DEFAULT_HOUR_AMOUNT,
      per |-> SECONDS_PER_HOUR]}

\* line 130
route_limits ==
    {[name |-> "10 per minute", amount |-> ROUTE_LIMIT_AMOUNT,
      per |-> SECONDS_PER_MINUTE]}

\* line 130: limit() is called without override_defaults, which defaults
\* to True: the decorated limit replaces the default limits on its route
override_defaults == TRUE

\* the limits checked for a request to /api/getRegionInfo
ApplicableLimits ==
    IF override_defaults THEN route_limits
    ELSE route_limits \cup default_limits

LimitNames == {l.name : l \in route_limits \cup default_limits}

\* the counter of a key at time t: an expired entry reads as absent
Stored(k, t) ==
    IF storage[k] > 0 /\ expirations[k] <= t THEN 0 ELSE storage[k]

\* storage.incr: the counter's value after one more hit
Incr(k, t) == Stored(k, t) + 1

\* limiter.hit for every applicable limit, keyed by the client's address
WithinLimits(c, t) ==
    \A l \in ApplicableLimits : Incr(<<c, l.name>>, t) <= l.amount

StorageAfterHit(c, t) ==
    [k \in DOMAIN storage |->
        IF \E l \in ApplicableLimits : k = <<c, l.name>>
        THEN Incr(k, t) ELSE storage[k]]

ExpirationsAfterHit(c, t) ==
    [k \in DOMAIN expirations |->
        IF \E l \in ApplicableLimits : k = <<c, l.name>> /\ Incr(k, t) = 1
        THEN t + (CHOOSE l \in ApplicableLimits : k = <<c, l.name>>).per
        ELSE expirations[k]]

\* what the limiter answers a request over a limit with
RATE_LIMIT_EXCEEDED == "429 Too Many Requests"

TooManyRequests == [status |-> 429, body |-> [error |-> RATE_LIMIT_EXCEEDED]]

(***************************************************************************)
(* The environments explored: the clients, the query strings they send,    *)
(* the outcomes of the Geocode upstream call, the process-wide API key,    *)
(* and the clock's step and horizon.                                       *)
(***************************************************************************)
Chars(lit) ==
    CASE lit = "37.5" -> <<"3", "7", ".", "5">>
      [] lit = "127" -> <<"1", "2", "7">>
      [] lit = "-0.25" -> <<"-", "0", ".", "2", "5">>
      [] lit = "abc" -> <<"a", "b", "c">>
      [] lit = "nan" -> <<"n", "a", "n">>
      [] lit = "1.2.3" -> <<"1", ".", "2", ".", "3">>
      [] lit = "" -> <<>>

\* request.args for a query string with the given latitude and longitude
\* values ("absent": the parameter is not in the query string)
Args(lat, lon) ==
    [k \in {x \in {"latitude", "longitude"} :
               \/ x = "latitude" /\ lat # "absent"
               \/ x = "longitude" /\ lon # "absent"} |->
        IF k = "latitude" THEN Chars(lat) ELSE Chars(lon)]

RichArgs ==
    {Args(lat, lon) : lat \in {"absent", "37.5", "abc", "nan"},
                      lon \in {"absent", "127", "", "1.2.3"}}

PlainArgs == {Args("37.5", "127")}

GeocodeArgs == {Args("37.5", "127"), Args("nan", "-0.25")}

GoodGeometry == JObj([location_type |-> JStr("ROOFTOP")])

GoodResult ==
    JObj([formatted_address |-> JStr("Seoul"), geometry |-> GoodGeometry])

\* what the first element of results can be
FirstResults ==
    {GoodResult,
     JObj([geometry |-> GoodGeometry]),
     JObj([formatted_address |-> JStr("Seoul")]),
     JObj([formatted_address |-> PyNone, geometry |-> EmptyDict]),
     JObj([formatted_address |-> JStr("Seoul"), geometry |-> PyNone]),
     JObj([formatted_address |-> JStr("Seoul"), geometry |-> JStr("x")]),
     EmptyDict, PyNone, JStr("x"), JNum(1), JArr(<<>>)}

OkBody(results) == JObj([status |-> JStr("OK"), results |-> results])

JsonBodies ==
    {PyNone, JArr(<<>>), JStr("OK"), JNum(0), JBool(TRUE)}
    \cup {EmptyDict,
          JObj([status |-> JStr("ZERO_RESULTS"), results |-> JArr(<<>>)]),
          JObj([status |-> JStr("REQUEST_DENIED"),
                results |-> JArr(<<GoodResult>>)]),
          JObj([status |-> JNum(1), results |-> JArr(<<GoodResult>>)]),
          JObj([results |-> JArr(<<GoodResult>>)]),
          JObj([status |-> JStr("OK")])}
    \cup {OkBody(r) : r \in {PyNone, JArr(<<>>), JStr(""), JNum(0), JStr("x"),
                            JNum(1), JBool(TRUE),
                            JObj([a |-> GoodResult]),
                            JArr(<<GoodResult, EmptyDict>>),
                            JArr(<<EmptyDict, GoodResult>>)}}
    \cup {OkBody(JArr(<<f>>)) : f \in FirstResults}

Outcome(kind, body) == [kind |-> kind, body |-> body]

RichOutcomes ==
    {Outcome("connection_error", PyNone), Outcome("timeout", PyNone),
     Outcome("not_json", PyNone)}
    \cup {Outcome("json", b) : b \in JsonBodies}

PlainOutcomes ==
    {Outcome("timeout", PyNone),
     Outcome("json", OkBody(JArr(<<GoodResult>>)))}

QuotaOutcomes == PlainOutcomes \cup {Outcome("json", JArr(<<>>))}

CoreOutcomes ==
    {Outcome("connection_error", PyNone), Outcome("timeout", PyNone),
     Outcome("not_json", PyNone),
     Outcome("json", OkBody(JArr(<<GoodResult>>))),
     Outcome("json", OkBody(JArr(<<EmptyDict>>))),
     Outcome("json", JObj([status |-> JStr("ZERO_RESULTS"),
                           results |-> JArr(<<>>)])),
     Outcome("json", JArr(<<>>)),
     Outcome("json", OkBody(JArr(<<PyNone>>)))}

NoOutcome == Outcome("none", PyNone)

World(clients, args, outcomes, tick, horizon) ==
    [clients |-> clients, args |-> args, outcomes |-> outcomes,
     tick |-> tick, horizon |-> horizon]

\* the gateway with every kind of query string
GatewayWorld == World({"a"}, RichArgs, CoreOutcomes, TickSpec, HorizonSpec)

\* the gateway with every kind of Geocode answer
GeocodeWorld ==
    World({"a"}, GeocodeArgs, RichOutcomes, TickSpec, HorizonSpec)

\* two clients against the per-minute quota
QuotaWorld ==
    World({"a", "b"}, PlainArgs, QuotaOutcomes, TickQuota, HorizonQuota)

\* one client over several minutes
HourWorld == World({"a"}, PlainArgs, PlainOutcomes, TickHour, HorizonHour)

world ==
    CASE scenario = "gateway" -> GatewayWorld
      [] scenario = "geocode" -> GeocodeWorld
      [] scenario = "quota" -> QuotaWorld
      [] scenario = "hour" -> HourWorld

NoRequest == [client |-> "", args |-> <<>>]

InitIn(name, key) ==
    /\ scenario = name
    /\ GOOGLE_API_KEY = key
    /\ now = 0
    /\ storage = [k \in world.clients \X LimitNames |-> 0]
    /\ expirations = [k \in world.clients \X LimitNames |-> 0]
    /\ pc = "idle"
    /\ req = NoRequest
    /\ latitude = PyNone
    /\ longitude = PyNone
    /\ waited = 0
    /\ upstream = NoOutcome
    /\ map_info = PyNone
    /\ forest_data = PyNone
    /\ property_data = PyNone
    /\ response = <<>>
    /\ logs = <<>>
    /\ calls = <<>>
    /\ accepted = [c \in world.clients |-> 0]
    /\ failedBefore = FALSE

Init == InitIn("gateway", JStr("k"))

InitGeocode == \E key \in {PyNone, JStr("k")} : InitIn("geocode", key)

InitQuota == InitIn("quota", JStr("k"))

InitHour == InitIn("hour", JStr("k"))

(***************************************************************************)
(* The request in flight.  pc is its place in the code:                    *)
(*   idle           nothing received yet                                   *)
(*   received       routed, the limiter not yet consulted                  *)
(*   handler        past the limiter, at get_region_info's line 135        *)
(*   validated      past the check of line 139                             *)
(*   geocode_wait   in get_map_info, blocked in requests.get (line 59)     *)
(*   map_done       line 143 has returned                                  *)
(*   forest_done    line 144 has returned                                  *)
(*   property_done  line 145 has returned                                  *)
(*   done           the response is sent                                   *)
(***************************************************************************)
Call(fn, arg) == [fn |-> fn, arg |-> arg]

Response(status, body) == [status |-> status, body |-> body]

\* request.args.get(name, type=float): None when the parameter is absent
\* or float() raises ValueError on its value
ArgsGetFloat(args, name) ==
    IF name \in DOMAIN args THEN PyFloat(args[name]) ELSE PyNone

\* a slip: the request is turned away only when both parameters are missing
ParamsMissing_BothRequired(lat, lon) == lat = PyNone /\ lon = PyNone

\* line 139
ParamsMissing(lat, lon) == lat = PyNone \/ lon = PyNone

\* line 140
BadRequest == Response(400, [error |-> PARAMS_REQUIRED])

\* lines 154-156: what the except branch logs and answers
ExceptLog == LogEvent("ERROR", "get_region_info")

\* a slip: the except branch answers with the errorhandler's message
ExceptResponse_HandlerMessage ==
    Response(500, [error |-> INTERNAL_SERVER_ERROR])

ExceptResponse == Response(500, [error |-> SERVER_ERROR])

\* lines 148-153
OkResponse(m, f, p) ==
    Response(200, [map_info |-> m, forest_data |-> f, property_data |-> p])

\* a slip: the lookup misses the key and always takes the default
RegionNameOf_WrongKey(f) == ""

\* forest_data.get("region_name", "")
RegionNameOf(f) == IF "region_name" \in DOMAIN f THEN f.region_name ELSE ""

\* a request arrives; the one before it, if any, has been answered
Receive(c, a) ==
    /\ pc \in {"idle", "done"}
    /\ \A l \in ApplicableLimits :
           Stored(<<c, l.name>>, now) < l.amount + MaxOver
    /\ pc' = "received"
    /\ req' = [client |-> c, args |-> a]
    /\ latitude' = PyNone
    /\ longitude' = PyNone
    /\ waited' = 0
    /\ upstream' = NoOutcome
    /\ map_info' = PyNone
    /\ forest_data' = PyNone
    /\ property_data' = PyNone
    /\ response' = <<>>
    /\ logs' = <<>>
    /\ calls' = <<>>
    /\ UNCHANGED <<scenario, GOOGLE_API_KEY, now, storage, expirations,
                   accepted, failedBefore>>

\* line 130: the limiter counts the request and lets it through to the
\* handler or answers 429
limiter_limit ==
    /\ pc = "received"
    /\ storage' = StorageAfterHit(req.client, now)
    /\ expirations' = ExpirationsAfterHit(req.client, now)
    /\ IF WithinLimits(req.client, now)
       THEN /\ pc' = "handler"
            /\ accepted' = [accepted EXCEPT ![req.client] = @ + 1]
            /\ UNCHANGED response
       ELSE /\ pc' = "done"
            /\ response' = Append(response, TooManyRequests)
            /\ UNCHANGED accepted
    /\ UNCHANGED <<scenario, GOOGLE_API_KEY, now, req, latitude, longitude,
                   waited, map_info, forest_data, property_data, logs, calls,
                   failedBefore, upstream>>

\* lines 137-140
Validate ==
    /\ pc = "handler"
    /\ LET lat == ArgsGetFloat(req.args, "latitude")
           lon == ArgsGetFloat(req.args, "longitude")
       IN  /\ latitude' = lat
           /\ longitude' = lon
           /\ IF ParamsMissing(lat, lon)
              THEN /\ pc' = "done"
                   /\ response' = Append(response, BadRequest)
              ELSE /\ pc' = "validated"
                   /\ UNCHANGED response
    /\ UNCHANGED <<scenario, GOOGLE_API_KEY, now, storage, expirations, req,
                   waited, map_info, forest_data, property_data, logs, calls,
                   accepted, failedBefore, upstream>>

\* line 143, lines 55-59: get_map_info is entered and issues the GET
call_get_map_info ==
    /\ pc = "validated"
    /\ pc' = "geocode_wait"
    /\ waited' = 0
    /\ calls' = Append(calls, Call("get_map_info", <<latitude, longitude>>))
    /\ UNCHANGED <<scenario, GOOGLE_API_KEY, now, storage, expirations, req,
                   latitude, longitude, map_info, forest_data, property_data,
                   response, logs, accepted, failedBefore, upstream>>

\* a slip: requests.get without timeout=5 never gives up
TimedOut_Never == FALSE

\* line 59: timeout=5 has run out
TimedOut == waited = GEOCODE_TIMEOUT

\* a second passes with no answer from the upstream
Wait ==
    /\ pc = "geocode_wait"
    /\ waited < GEOCODE_TIMEOUT
    /\ waited' = waited + 1
    /\ UNCHANGED <<scenario, GOOGLE_API_KEY, now, storage, expirations, pc,
                   req, latitude, longitude, map_info, forest_data,
                   property_data, response, logs, calls, accepted,
                   failedBefore, upstream>>

\* lines 59-85, and lines 154-156 when get_map_info raises: requests.get
\* returns or raises (the upstream answers or fails within the timeout, or
\* the timeout runs out), and get_map_info runs to its end
requests_get_returns(o) ==
    /\ pc = "geocode_wait"
    /\ o \in world.outcomes
    /\ IF o.kind = "timeout" THEN TimedOut ELSE waited < GEOCODE_TIMEOUT
    /\ upstream' = o
    /\ LET r == get_map_info(latitude, longitude, o, GOOGLE_API_KEY)
       IN  IF r.raised
           THEN /\ logs' = (logs \o r.logs) \o <<ExceptLog>>
                /\ response' = Append(response, ExceptResponse)
                /\ pc' = "done"
                /\ failedBefore' = TRUE
                /\ UNCHANGED map_info
           ELSE /\ logs' = logs \o r.logs
                /\ map_info' = r.ret
                /\ pc' = "map_done"
                /\ UNCHANGED <<response, failedBefore>>
    /\ UNCHANGED <<scenario, GOOGLE_API_KEY, now, storage, expirations, req,
                   latitude, longitude, waited, forest_data, property_data,
                   calls, accepted>>

\* line 144
call_get_forest_data ==
    /\ pc = "map_done"
    /\ LET r == get_forest_data(latitude, longitude)
       IN  /\ calls' =
                Append(calls, Call("get_forest_data", <<latitude, longitude>>))
           /\ logs' = logs \o r.logs
           /\ forest_data' = r.ret
    /\ pc' = "forest_done"
    /\ UNCHANGED <<scenario, GOOGLE_API_KEY, now, storage, expirations, req,
                   latitude, longitude, waited, map_info, property_data,
                   response, accepted, failedBefore, upstream>>

\* line 145
call_get_property_data ==
    /\ pc = "forest_done"
    /\ LET r == get_property_data(RegionNameOf(forest_data))
       IN  /\ calls' =
                Append(calls,
                       Call("get_property_data", <<RegionNameOf(forest_data)>>))
           /\ logs' = logs \o r.logs
           /\ property_data' = r.ret
    /\ pc' = "property_done"
    /\ UNCHANGED <<scenario, GOOGLE_API_KEY, now, storage, expirations, req,
                   latitude, longitude, waited, map_info, forest_data,
                   response, accepted, failedBefore, upstream>>

\* lines 148-153
Respond ==
    /\ pc = "property_done"
    /\ response' =
         Append(response, OkResponse(map_info, forest_data, property_data))
    /\ pc' = "done"
    /\ UNCHANGED <<scenario, GOOGLE_API_KEY, now, storage, expirations, req,
                   latitude, longitude, waited, map_info, forest_data,
                   property_data, logs, calls, accepted, failedBefore,
                   upstream>>

\* time passes
Tick ==
    /\ now + world.tick <= world.horizon
    /\ now' = now + world.tick
    /\ UNCHANGED <<scenario, GOOGLE_API_KEY, storage, expirations, pc, req,
                   latitude, longitude, waited, map_info, forest_data,
                   property_data, response, logs, calls, accepted,
                   failedBefore, upstream>>

Arrival == \E c \in world.clients : \E a \in world.args : Receive(c, a)

UpstreamReturn == \E o \in world.outcomes : requests_get_returns(o)

Next ==
    \/ Arrival
    \/ limiter_limit
    \/ Validate
    \/ call_get_map_info
    \/ Wait
    \/ UpstreamReturn
    \/ call_get_forest_data
    \/ call_get_property_data
    \/ Respond
    \/ Tick

Spec == Init /\ [][Next]_vars

SpecQuota == InitQuota /\ [][Next]_vars

SpecHour == InitHour /\ [][Next]_vars

SpecGeocode == InitGeocode /\ [][Next]_vars

\* every step of the handler is taken once it can be: the worker runs the
\* request to its end, and requests.get returns within its timeout
Fairness ==
    /\ WF_vars(limiter_limit)
    /\ WF_vars(Validate)
    /\ WF_vars(call_get_map_info)
    /\ WF_vars(Wait)
    /\ WF_vars(UpstreamReturn)
    /\ WF_vars(call_get_forest_data)
    /\ WF_vars(call_get_property_data)
    /\ WF_vars(Respond)

LiveSpec == Init /\ [][Next]_vars /\ Fairness

(***************************************************************************)
(* Vocabulary of the properties.                                           *)
(***************************************************************************)
Answered == pc = "done"

Status == response[1].status

Body == response[1].body

RouteKey(c) == <<c, "10 per minute">>

CountLogs(site) == Cardinality({i \in 1..Len(logs) : logs[i].site = site})

CallsOf(fn) == {i \in 1..Len(calls) : calls[i].fn = fn}

\* the literals of the explored query strings, by what they are
NumericLiterals == {Chars("37.5"), Chars("127"), Chars("-0.25"), Chars("nan")}

NonNumericLiterals == {Chars("abc"), Chars(""), Chars("1.2.3")}

ParamMissing(name) == name \notin DOMAIN req.args

ParamNonNumeric(name) ==
    name \in DOMAIN req.args /\ req.args[name] \in NonNumericLiterals

ParamsPresentAndNumeric ==
    \A name \in {"latitude", "longitude"} :
        name \in DOMAIN req.args /\ req.args[name] \in NumericLiterals

ParamsBad ==
    \E name \in {"latitude", "longitude"} :
        ParamMissing(name) \/ ParamNonNumeric(name)

CompleteResult(b) ==
    /\ DOMAIN b = {"map_info", "forest_data", "property_data"}
    /\ DOMAIN b.map_info =
         {"address", "formatted_address", "location_type", "map_image_url"}
    /\ DOMAIN b.forest_data =
         {"is_mountain_area", "region_name", "boundary_coordinates"}
    /\ DOMAIN b.property_data = {"owner", "registration_number", "management"}

\* requests.get has ended for the request in flight
UpstreamEnded == upstream.kind # "none"

\* get_map_info returned to get_region_info (it did not raise)
MapInfoReturned == map_info # PyNone

(***************************************************************************)
(* C1                                                                      *)
(***************************************************************************)
\* C1: a request whose latitude and longitude are both present and numeric
\* and that the rate limiter lets through is answered 200 with a result that
\* holds map_info, forest_data and property_data with every field present,
\* whatever the outcome of the Geocode upstream call.
C1_ValidRequestGetsCompleteResult ==
    (Answered /\ Status # 429 /\ ParamsPresentAndNumeric)
        => (Status = 200 /\ CompleteResult(Body))

(***************************************************************************)
(* C2                                                                      *)
(***************************************************************************)
\* C2: a request with latitude or longitude missing or non-numeric never
\* gets past validation, invokes no provider, and, once get_region_info has
\* answered it, the answer is 400 with the fixed message and nothing else;
\* a non-numeric value and a missing one get the same answer.
C2_BadParamsRejected ==
    (pc # "idle" /\ ParamsBad)
        => /\ calls = <<>>
           /\ pc \in {"received", "handler", "done"}
           /\ (Answered /\ Status # 429)
                => /\ response = <<Response(400, [error |-> PARAMS_REQUIRED])>>
                   /\ logs = <<>>

C2_Witness ==
    /\ Answered
    /\ ParamNonNumeric("latitude")
    /\ ~ParamMissing("longitude") /\ ~ParamNonNumeric("longitude")
    /\ Status = 400

(***************************************************************************)
(* C3                                                                      *)
(***************************************************************************)
\* the place of the request in flight among its client's hits of the
\* current one-minute window
HitIndex == storage[RouteKey(req.client)]

\* C3: of the requests a client makes within one window of the limiter, the
\* first 10 are let through and answered 200, and any later one is answered
\* 429 with no provider called, whatever other clients do in between.
C3_FirstTenAcceptedEleventhRejected ==
    (pc \notin {"idle", "received"})
        => /\ (HitIndex <= ROUTE_LIMIT_AMOUNT)
                => (Answered => Status = 200)
           /\ (HitIndex > ROUTE_LIMIT_AMOUNT)
                => (Answered /\ Status = 429 /\ calls = <<>>)

\* the part of C3 that is the limiter's: the first 10 hits of a window reach
\* the handler, the later ones are answered 429 with no provider called
C3_LimiterPart ==
    (pc \notin {"idle", "received"})
        => /\ (HitIndex <= ROUTE_LIMIT_AMOUNT)
                => (Answered => Status \in {200, 500})
           /\ (HitIndex > ROUTE_LIMIT_AMOUNT)
                => (Answered /\ Status = 429 /\ calls = <<>>)

(***************************************************************************)
(* C4                                                                      *)
(***************************************************************************)
\* C4: no client has more than 50 requests accepted within an hour nor more
\* than 200 within a day on /api/getRegionInfo, and a request that breaches
\* a cap is rejected before any provider is called.
C4_HourAndDayCaps ==
    /\ \A c \in world.clients :
          /\ now < SECONDS_PER_HOUR => accepted[c] <= DEFAULT_HOUR_AMOUNT
          /\ now < SECONDS_PER_DAY => accepted[c] <= DEFAULT_DAY_AMOUNT
    /\ (Answered /\ Status = 429) => calls = <<>>

(***************************************************************************)
(* C5                                                                      *)
(***************************************************************************)
ResultsOf(body) ==
    IF "results" \in DOMAIN body.f THEN body.f["results"] ELSE PyNone

FirstOf(body) == ResultsOf(body).e[1]

HasFirst(body) ==
    /\ body.t = "object"
    /\ ResultsOf(body).t = "array"
    /\ Len(ResultsOf(body).e) > 0

StatusIsOk(body) ==
    /\ body.t = "object"
    /\ "status" \in DOMAIN body.f
    /\ body.f["status"] = JStr("OK")

\* the outcomes C5 names: a transport failure, a timeout, a malformed
\* response, a status that is not "OK"
Degraded(o) ==
    \/ o.kind \in {"connection_error", "timeout", "not_json"}
    \/ /\ o.kind = "json"
       /\ \/ o.body.t # "object"
          \/ ~StatusIsOk(o.body)
          \/ /\ HasFirst(o.body)
             /\ \/ FirstOf(o.body).t # "object"
                \/ /\ "geometry" \in DOMAIN FirstOf(o.body).f
                   /\ FirstOf(o.body).f["geometry"].t # "object"

\* C5: get_map_info never raises to its caller, and on a degraded outcome it
\* returns the fallback address twice, an empty location_type, and the
\* static-map URL of the input latitude and longitude.
C5_MapInfoNeverRaises ==
    UpstreamEnded
        => /\ MapInfoReturned
           /\ Degraded(upstream)
                => map_info =
                     [address |-> JStr(ADDRESS_NOT_FOUND),
                      formatted_address |-> JStr(ADDRESS_NOT_FOUND),
                      location_type |-> JStr(""),
                      map_image_url |->
                          StaticMapUrl(latitude, longitude, GOOGLE_API_KEY)]

(***************************************************************************)
(* C6                                                                      *)
(***************************************************************************)
\* the calls of fn that have run to their end
Completed(fn) ==
    Cardinality(CallsOf(fn))
      - (IF fn = "get_map_info" /\ pc = "geocode_wait" THEN 1 ELSE 0)

OneEventPerProviderCall ==
    \A fn \in {"get_map_info", "get_forest_data", "get_property_data"} :
        CountLogs(fn) = Completed(fn)

\* C6 as stated: one log event per provider call, and exactly one
\* request-level log event for every request answered 400 or 500.
C6_OneEventPerCallAndFailure ==
    /\ OneEventPerProviderCall
    /\ (Answered /\ Status \in {400, 500})
         => CountLogs("get_region_info") = 1

\* C6, amended: one log event per provider call, exactly one request-level
\* log event for a request answered 500, and none for any other request,
\* the 400 validation rejection included.
C6_OneEventPerCallAndServerError ==
    /\ OneEventPerProviderCall
    /\ Answered
         => CountLogs("get_region_info") = (IF Status = 500 THEN 1 ELSE 0)
    /\ ~Answered => CountLogs("get_region_info") = 0

C6_Witness ==
    /\ Answered
    /\ Status = 500
    /\ logs = <<LogEvent("INFO", "get_map_info"),
                LogEvent("ERROR", "get_region_info")>>

(***************************************************************************)
(* C7                                                                      *)
(***************************************************************************)
\* the request's state in the gateway's state machine
State ==
    CASE pc = "idle" -> "Idle"
      [] pc \in {"received", "handler"} -> "Received"
      [] pc = "validated" -> "Validated"
      [] pc \in {"geocode_wait", "map_done", "forest_done", "property_done"}
           -> "Aggregating"
      [] pc = "done" /\ Status \in {400, 429} -> "Rejected"
      [] pc = "done" /\ Status \notin {400, 429} -> "Responded"

\* the moves of one request, and the arrival of the next one
Moves ==
    {<<"Idle", "Received">>, <<"Received", "Validated">>,
     <<"Received", "Rejected">>, <<"Validated", "Aggregating">>,
     <<"Aggregating", "Responded">>}

NextRequestArrives ==
    /\ State \in {"Rejected", "Responded"}
    /\ State' = "Received"
    /\ response' = <<>>

\* C7: a request moves only along Received, Validated, Aggregating,
\* Responded or Received, Rejected; Aggregating is entered only past the
\* limiter and the validation; a terminal state is left only by the next
\* request's arrival; a request has one response once it is terminal and
\* none before; and every request received reaches a terminal state, the
\* timeout ending the wait for a Geocode upstream that never answers.
C7_RequestLifecycle ==
    /\ [][State' = State \/ <<State, State'>> \in Moves
            \/ NextRequestArrives]_vars
    /\ [](State = "Aggregating"
            => /\ storage[RouteKey(req.client)] \in 1..ROUTE_LIMIT_AMOUNT
               /\ ParamsPresentAndNumeric
               /\ latitude.t = "float" /\ longitude.t = "float")
    /\ [](Len(response) = (IF pc = "done" THEN 1 ELSE 0))
    /\ [](pc \notin {"idle", "done"} => <>(pc = "done"))

C7_Witness ==
    /\ State = "Responded"
    /\ upstream.kind = "timeout"
    /\ waited = GEOCODE_TIMEOUT
    /\ Status = 200

RaisedWhileAggregating ==
    /\ UpstreamEnded
    /\ get_map_info(latitude, longitude, upstream, GOOGLE_API_KEY).raised

\* C9: a request in whose aggregation an exception is raised is answered 500
\* with the fixed message and nothing of a result, and the failure is the
\* last thing logged; a valid request that comes after a failed one and
\* raises nothing itself is answered 200 with a complete result.
C9_ServerErrorAndRecovery ==
    /\ RaisedWhileAggregating
         => /\ Answered
            /\ response = <<Response(500, [error |-> SERVER_ERROR])>>
            /\ logs[Len(logs)] = LogEvent("ERROR", "get_region_info")
            /\ CallsOf("get_forest_data") = {}
            /\ CallsOf("get_property_data") = {}
    /\ (Answered /\ Status = 500)
         => RaisedWhileAggregating /\ DOMAIN Body = {"error"}
    /\ (failedBefore /\ Answered /\ Status # 429 /\ ParamsPresentAndNumeric
          /\ ~RaisedWhileAggregating)
         => (Status = 200 /\ CompleteResult(Body))

C9_Witness ==
    /\ failedBefore
    /\ Answered
    /\ Status = 200
    /\ CompleteResult(Body)

(***************************************************************************)
(* C10                                                                     *)
(***************************************************************************)
\* the Geocode answer has status "OK" and a non-empty results sequence whose
\* first result is an object with a geometry that is an object or absent
OkWithResult ==
    /\ upstream.kind = "json"
    /\ StatusIsOk(upstream.body)
    /\ HasFirst(upstream.body)
    /\ FirstOf(upstream.body).t = "object"
    /\ "geometry" \in DOMAIN FirstOf(upstream.body).f
         => FirstOf(upstream.body).f["geometry"].t = "object"

====
